---- MODULE Spec2Model ----
(***************************************************************************)
(* Model of the blog-actix data layer (src/src/models.rs): the users,      *)
(* posts and comments tables of one SQLite database, and the operations    *)
(* of models.rs run by several callers, each on a connection of its own.   *)
(*                                                                         *)
(* A write operation is `conn.transaction(|| { write; select })`.  It is   *)
(* modelled in its three store steps: the write statement (which takes     *)
(* SQLite's write lock, held until the transaction ends), the select, and  *)
(* the COMMIT or ROLLBACK.  The two composite reads are modelled in their  *)
(* two statements: the parent load, and the child load with the grouping.  *)
(***************************************************************************)
EXTENDS Integers, Sequences, FiniteSets, TLC

\* ---------------------------------------------------------------- bounds
\* The store holds at most MaxRows rows, over the three tables.
MaxRows == 4
\* Two callers, each on its own connection.  Both run the write operations;
\* the reads are run by caller 1 (two reads do not affect each other).
Procs == {1, 2}
Readers == {1}
\* The values the callers supply.
Usernames == {"alice", "bob"}
Titles == {"Hello"}
Bodies == {"World"}
CommentBodies == {"Nice"}

VARIABLES
    users,      \* table users:    sequence of User rows in rowid order
    posts,      \* table posts:    sequence of Post rows in rowid order
    comments,   \* table comments: sequence of Comment rows in rowid order
    writer,     \* the caller whose transaction holds the write lock, or 0
    journal,    \* the tables as of the start of the open write transaction
    pc,         \* per caller: position inside the operation it runs
    call,       \* per caller: the operation and its arguments
    ret,        \* per caller: the Result the operation yields
    parents,    \* per caller: local `posts` / `posts_with_user` of a composite read
    flat,       \* per caller: the loaded child rows before grouped_by
    hist        \* per caller, history of the call: the rowid its insert was
                \* given (sqlite3_last_insert_rowid of its connection), or the
                \* number of comments committed when its parent load ran

vars == <<users, posts, comments, writer, journal, pc, call, ret, parents, flat, hist>>
tables == <<users, posts, comments>>
locals == <<parents, flat>>

\* ---------------------------------------------------------------- values
Ok(v) == [ok |-> TRUE, val |-> v]
Err(e) == [ok |-> FALSE, val |-> e]
NoCall == [op |-> "none", args |-> <<>>]
NoRet == Err("none")
NoJournal == [users |-> <<>>, posts |-> <<>>, comments |-> <<>>]

User(id, username) == [id |-> id, username |-> username]
Post(id, user_id, title, body, published) ==
    [id |-> id, user_id |-> user_id, title |-> title, body |-> body,
     published |-> published]
Comment(id, user_id, post_id, body) ==
    [id |-> id, user_id |-> user_id, post_id |-> post_id, body |-> body]

Range(s) == {s[i] : i \in DOMAIN s}
Ids(s) == {s[i].id : i \in DOMAIN s}

\* ---------------------------------------------------------------- the store
\* The working tables, as the open write transaction sees them.
db == [users |-> users, posts |-> posts, comments |-> comments]

\* What a statement outside the write transaction reads: committed rows only.
Committed == IF writer = 0 THEN db ELSE journal

\* SQLite admits one write transaction at a time: the first write statement
\* of a transaction waits until no other transaction holds the write lock.
\* (A wait that times out is a store-unreachable error, which is left out.)
LockFreeNoTransaction == TRUE
LockFree == writer = 0

\* The rowid SQLite assigns to an inserted row: one more than the largest.
MaxOf(S) == IF S = {} THEN 0 ELSE CHOOSE m \in S : \A n \in S : n <= m
NextId(t) == MaxOf(Ids(t)) + 1

\* The store of the model holds at most MaxRows rows.
HasRoom == Len(users) + Len(posts) + Len(comments) < MaxRows

\* schema defaults and constraints
DefaultPublished == FALSE
UniqueUsername(U, name) == \A i \in DOMAIN U : U[i].username # name
ForeignKey(t, id) == id \in Ids(t)

\* ---------------------------------------------------------------- queries
RemoveAt(s, i) == [j \in 1..(Len(s) - 1) |-> IF j < i THEN s[j] ELSE s[j + 1]]

RECURSIVE OrderByIdAsc(_)
OrderByIdAsc(rows) ==
    IF rows = <<>> THEN <<>>
    ELSE LET i == CHOOSE i \in DOMAIN rows :
                     \A j \in DOMAIN rows : rows[i].id <= rows[j].id
         IN <<rows[i]>> \o OrderByIdAsc(RemoveAt(rows, i))

\* .order(id.desc())
RECURSIVE OrderByIdDesc(_)
OrderByIdDesc(rows) ==
    IF rows = <<>> THEN <<>>
    ELSE LET i == CHOOSE i \in DOMAIN rows :
                     \A j \in DOMAIN rows : rows[j].id <= rows[i].id
         IN <<rows[i]>> \o OrderByIdDesc(RemoveAt(rows, i))

\* .first(conn): the first row of the result, or NotFound
First(rows) == IF rows = <<>> THEN Err("NotFound") ELSE Ok(rows[1])

\* .inner_join(users::table): each row with the user its user_id names
RECURSIVE InnerJoinUsers(_, _)
InnerJoinUsers(rows, U) ==
    IF rows = <<>> THEN <<>>
    ELSE LET r == Head(rows)
             m == SelectSeq(U, LAMBDA u : u.id = r.user_id)
         IN [i \in DOMAIN m |-> <<r, m[i]>>] \o InnerJoinUsers(Tail(rows), U)

\* The orders in which a load without ORDER BY may yield a result.
Orderings(rows) ==
    {[i \in DOMAIN rows |-> rows[f[i]]] : f \in Permutations(DOMAIN rows)}

Zip(a, b) ==
    [i \in 1..(IF Len(a) < Len(b) THEN Len(a) ELSE Len(b)) |-> <<a[i], b[i]>>]

\* .find(id): the rows whose primary key is id
FindByIdUnfiltered(rows, id) == rows
FindById(rows, id) == SelectSeq(rows, LAMBDA r : r.id = id)

\* .filter(users::username.eq(name))
FilterUsernameNone(U, name) == U
FilterUsername(U, name) == SelectSeq(U, LAMBDA u : u.username = name)

\* diesel::update(posts.filter(id.eq(post_id))).set(published.eq(true))
SetPublishedToggle(rows, post_id) ==
    [i \in DOMAIN rows |->
        IF rows[i].id = post_id
        THEN [rows[i] EXCEPT !.published = ~rows[i].published]
        ELSE rows[i]]
SetPublishedAll(rows, post_id) ==
    [i \in DOMAIN rows |-> [rows[i] EXCEPT !.published = TRUE]]
SetPublished(rows, post_id) ==
    [i \in DOMAIN rows |->
        IF rows[i].id = post_id
        THEN [rows[i] EXCEPT !.published = TRUE]
        ELSE rows[i]]

\* .filter(posts::published.eq(true))
FilterPublishedNone(rows) == rows
FilterPublished(rows) == SelectSeq(rows, LAMBDA r : r.published = TRUE)

\* the query of all_posts, also the parent load of all_posts_with_comments_user
PublishedPostsQuery(d) ==
    InnerJoinUsers(OrderByIdDesc(FilterPublished(d.posts)), d.users)

\* the query of user_posts, also the parent load of user_posts_with_comments
UserPostsQuery(d, user_id) ==
    OrderByIdDesc(SelectSeq(d.posts, LAMBDA r : r.user_id = user_id))

\* Comment::belonging_to(&posts).inner_join(users::table): the comments whose
\* post_id is the id of one of the loaded posts, each with its commenter
BelongingToFirst(d, ps) ==
    InnerJoinUsers(SelectSeq(d.comments,
                             LAMBDA c : ps # <<>> /\ c.post_id = ps[1].id), d.users)
BelongingTo(d, ps) ==
    InnerJoinUsers(SelectSeq(d.comments, LAMBDA c : c.post_id \in Ids(ps)), d.users)

\* .grouped_by(&posts): a map from parent id to index in the parent slice, one
\* empty bucket per parent, then every child pushed, in load order, into the
\* bucket of the parent its foreign key names.  The child of a pair
\* (Comment, User) is the Comment.  Every child handed over was selected by
\* belonging_to(&posts), so its foreign key is the id of a parent.
IdIndices(ps) ==
    [id \in Ids(ps) |->
        CHOOSE i \in DOMAIN ps :
            ps[i].id = id /\ \A j \in DOMAIN ps : ps[j].id = id => j <= i]

RECURSIVE GroupInto(_, _, _)
GroupInto(children, idx, result) ==
    IF children = <<>> THEN result
    ELSE LET c == Head(children)
         IN GroupInto(Tail(children), idx,
                      [result EXCEPT ![idx[c[1].post_id]] = Append(@, c)])

GroupedByIdAsIndex(children, ps) ==
    [i \in DOMAIN ps |-> SelectSeq(children, LAMBDA c : c[1].post_id = i)]
GroupedBySorted(children, ps) ==
    LET byId == [i \in DOMAIN children |-> [id |-> children[i][1].id, row |-> children[i]]]
        sorted == OrderByIdAsc(byId)
    IN GroupInto([i \in DOMAIN sorted |-> sorted[i].row], IdIndices(ps),
                 [i \in DOMAIN ps |-> <<>>])
GroupedBy(children, ps) ==
    GroupInto(children, IdIndices(ps), [i \in DOMAIN ps |-> <<>>])

\* ---------------------------------------------------------------- initial state
Init ==
    /\ users = <<>>
    /\ posts = <<>>
    /\ comments = <<>>
    /\ writer = 0
    /\ journal = NoJournal
    /\ pc = [p \in Procs |-> "idle"]
    /\ call = [p \in Procs |-> NoCall]
    /\ ret = [p \in Procs |-> NoRet]
    /\ parents = [p \in Procs |-> <<>>]
    /\ flat = [p \in Procs |-> <<>>]
    /\ hist = [p \in Procs |-> 0]

\* ---------------------------------------------------------------- transactions
\* The write statement of a transaction succeeded: the transaction holds the
\* write lock and the journal keeps the tables as they were.
Written(p, c, rowid) ==
    /\ hist' = [hist EXCEPT ![p] = rowid]
    /\ writer' = p
    /\ journal' = db
    /\ pc' = [pc EXCEPT ![p] = "written"]
    /\ call' = [call EXCEPT ![p] = c]
    /\ UNCHANGED <<ret, locals>>

\* The write statement failed: `?` leaves the closure, the transaction
\* rolls back with nothing written, the operation yields the error.
Failed(p, c, e) ==
    /\ pc' = [pc EXCEPT ![p] = "done"]
    /\ call' = [call EXCEPT ![p] = c]
    /\ ret' = [ret EXCEPT ![p] = Err(e)]
    /\ UNCHANGED <<tables, writer, journal, locals, hist>>

\* The select of a transaction yields r.
Selected(p, r) ==
    /\ pc' = [pc EXCEPT ![p] = "selected"]
    /\ ret' = [ret EXCEPT ![p] = r]
    /\ UNCHANGED <<tables, writer, journal, call, locals, hist>>

\* conn.transaction: the closure returned Ok, COMMIT
Commit(p) ==
    /\ pc[p] = "selected"
    /\ ret[p].ok
    /\ writer' = 0
    /\ journal' = NoJournal
    /\ pc' = [pc EXCEPT ![p] = "done"]
    /\ UNCHANGED <<tables, call, ret, locals, hist>>

\* conn.transaction: the closure returned Err, ROLLBACK
Rollback(p) ==
    /\ pc[p] = "selected"
    /\ ~ret[p].ok
    /\ users' = journal.users
    /\ posts' = journal.posts
    /\ comments' = journal.comments
    /\ writer' = 0
    /\ journal' = NoJournal
    /\ pc' = [pc EXCEPT ![p] = "done"]
    /\ UNCHANGED <<call, ret, locals, hist>>

\* A read of one statement yields r.
Read(p, c, r) ==
    /\ pc' = [pc EXCEPT ![p] = "done"]
    /\ call' = [call EXCEPT ![p] = c]
    /\ ret' = [ret EXCEPT ![p] = r]
    /\ UNCHANGED <<tables, writer, journal, locals, hist>>

\* The caller takes the result; its connection is free for the next operation.
Return(p) ==
    /\ pc[p] = "done"
    /\ pc' = [pc EXCEPT ![p] = "idle"]
    /\ call' = [call EXCEPT ![p] = NoCall]
    /\ ret' = [ret EXCEPT ![p] = NoRet]
    /\ parents' = [parents EXCEPT ![p] = <<>>]
    /\ flat' = [flat EXCEPT ![p] = <<>>]
    /\ hist' = [hist EXCEPT ![p] = 0]
    /\ UNCHANGED <<tables, writer, journal>>

\* ---------------------------------------------------------------- create_user
CreateUserInsert(p, username) ==
    /\ pc[p] = "idle"
    /\ LockFree
    /\ HasRoom
    /\ LET c == [op |-> "create_user", args |-> <<username>>]
       IN \/ /\ ~UniqueUsername(users, username)
             /\ Failed(p, c, "ConstraintViolation")
          \/ /\ UniqueUsername(users, username)
             /\ users' = Append(users, User(NextId(users), username))
             /\ UNCHANGED <<posts, comments>>
             /\ Written(p, c, NextId(users))

CreateUserSelect(p) ==
    /\ pc[p] = "written"
    /\ call[p].op = "create_user"
    /\ Selected(p, First(OrderByIdDesc(users)))

\* ---------------------------------------------------------------- find_user
FindUser(p, key) ==
    /\ p \in Readers
    /\ pc[p] = "idle"
    /\ LET c == [op |-> "find_user", args |-> key]
           U == Committed.users
       IN \/ /\ key[1] = "Username"
             /\ Read(p, c, First(FilterUsername(U, key[2])))
          \/ /\ key[1] = "ID"
             /\ Read(p, c, First(FindById(U, key[2])))

\* ---------------------------------------------------------------- create_post
CreatePostInsert(p, user_id, title, body) ==
    /\ pc[p] = "idle"
    /\ LockFree
    /\ HasRoom
    /\ LET c == [op |-> "create_post", args |-> <<user_id, title, body>>]
       IN \/ /\ ~ForeignKey(users, user_id)
             /\ Failed(p, c, "ConstraintViolation")
          \/ /\ ForeignKey(users, user_id)
             /\ posts' = Append(posts, Post(NextId(posts), user_id, title, body,
                                            DefaultPublished))
             /\ UNCHANGED <<users, comments>>
             /\ Written(p, c, NextId(posts))

CreatePostSelect(p) ==
    /\ pc[p] = "written"
    /\ call[p].op = "create_post"
    /\ Selected(p, First(OrderByIdDesc(posts)))

\* ---------------------------------------------------------------- publish_post
PublishPostUpdate(p, post_id) ==
    /\ pc[p] = "idle"
    /\ LockFree
    /\ posts' = SetPublished(posts, post_id)
    /\ UNCHANGED <<users, comments>>
    /\ Written(p, [op |-> "publish_post", args |-> <<post_id>>], 0)

PublishPostSelect(p) ==
    /\ pc[p] = "written"
    /\ call[p].op = "publish_post"
    /\ Selected(p, First(FindById(posts, call[p].args[1])))

\* ---------------------------------------------------------------- all_posts
AllPosts(p) ==
    /\ p \in Readers
    /\ pc[p] = "idle"
    /\ Read(p, [op |-> "all_posts", args |-> <<>>], Ok(PublishedPostsQuery(Committed)))

\* ---------------------------------------------------------------- create_comment
CreateCommentInsert(p, user_id, post_id, body) ==
    /\ pc[p] = "idle"
    /\ LockFree
    /\ HasRoom
    /\ LET c == [op |-> "create_comment", args |-> <<user_id, post_id, body>>]
       IN \/ /\ ~(ForeignKey(users, user_id) /\ ForeignKey(posts, post_id))
             /\ Failed(p, c, "ConstraintViolation")
          \/ /\ ForeignKey(users, user_id)
             /\ ForeignKey(posts, post_id)
             /\ comments' = Append(comments,
                                   Comment(NextId(comments), user_id, post_id, body))
             /\ UNCHANGED <<users, posts>>
             /\ Written(p, c, NextId(comments))

CreateCommentSelect(p) ==
    /\ pc[p] = "written"
    /\ call[p].op = "create_comment"
    /\ Selected(p, First(OrderByIdDesc(comments)))

\* ---------------------------------------------------------------- composite reads
\* The parent load of a composite read yielded ps.
Loaded(p, c, ps) ==
    /\ pc' = [pc EXCEPT ![p] = "loaded"]
    /\ call' = [call EXCEPT ![p] = c]
    /\ parents' = [parents EXCEPT ![p] = ps]
    /\ hist' = [hist EXCEPT ![p] = Len(Committed.comments)]
    /\ UNCHANGED <<tables, writer, journal, ret, flat>>

\* The child load yielded children; out is the assembled result.
Assembled(p, children, out) ==
    /\ pc' = [pc EXCEPT ![p] = "done"]
    /\ flat' = [flat EXCEPT ![p] = children]
    /\ ret' = [ret EXCEPT ![p] = Ok(out)]
    /\ UNCHANGED <<tables, writer, journal, call, parents, hist>>

AllPostsWithCommentsUserLoadPosts(p) ==
    /\ p \in Readers
    /\ pc[p] = "idle"
    /\ Loaded(p, [op |-> "all_posts_with_comments_user", args |-> <<>>],
              PublishedPostsQuery(Committed))

AllPostsWithCommentsUserLoadComments(p) ==
    /\ pc[p] = "loaded"
    /\ call[p].op = "all_posts_with_comments_user"
    /\ LET posts_with_user == parents[p]
           ps == [i \in DOMAIN posts_with_user |-> posts_with_user[i][1]]
           post_users == [i \in DOMAIN posts_with_user |-> posts_with_user[i][2]]
       IN \E children \in Orderings(BelongingTo(Committed, ps)) :
              Assembled(p, children,
                        Zip(Zip(ps, post_users), GroupedBy(children, ps)))

UserPostsWithCommentsLoadPosts(p, user_id) ==
    /\ p \in Readers
    /\ pc[p] = "idle"
    /\ Loaded(p, [op |-> "user_posts_with_comments", args |-> <<user_id>>],
              UserPostsQuery(Committed, user_id))

UserPostsWithCommentsLoadComments(p) ==
    /\ pc[p] = "loaded"
    /\ call[p].op = "user_posts_with_comments"
    /\ LET ps == parents[p]
       IN \E children \in Orderings(BelongingTo(Committed, ps)) :
              Assembled(p, children, Zip(ps, GroupedBy(children, ps)))

\* ---------------------------------------------------------------- next-state
UserIdArgs == 1..(Len(Committed.users) + 1)
PostIdArgs == 1..(Len(Committed.posts) + 1)
UserKeys == {<<"Username", n>> : n \in Usernames} \cup {<<"ID", i>> : i \in UserIdArgs}

Next ==
    \E p \in Procs :
        \/ \E n \in Usernames : CreateUserInsert(p, n)
        \/ CreateUserSelect(p)
        \/ \E k \in UserKeys : FindUser(p, k)
        \/ \E u \in UserIdArgs, t \in Titles, b \in Bodies : CreatePostInsert(p, u, t, b)
        \/ CreatePostSelect(p)
        \/ \E i \in PostIdArgs : PublishPostUpdate(p, i)
        \/ PublishPostSelect(p)
        \/ AllPosts(p)
        \/ \E u \in UserIdArgs, i \in PostIdArgs, b \in CommentBodies :
               CreateCommentInsert(p, u, i, b)
        \/ CreateCommentSelect(p)
        \/ AllPostsWithCommentsUserLoadPosts(p)
        \/ AllPostsWithCommentsUserLoadComments(p)
        \/ \E u \in UserIdArgs : UserPostsWithCommentsLoadPosts(p, u)
        \/ UserPostsWithCommentsLoadComments(p)
        \/ Commit(p)
        \/ Rollback(p)
        \/ Return(p)

Spec == Init /\ [][Next]_vars

TypeOK ==
    /\ writer \in Procs \cup {0}
    /\ \A p \in Procs : pc[p] \in {"idle", "written", "selected", "loaded", "done"}

\* ================================================================ properties
CreateOps == {"create_user", "create_post", "create_comment"}
CompositeOps == {"all_posts_with_comments_user", "user_posts_with_comments"}

\* The committed table a create operation inserts into.
TableOf(op) ==
    CASE op = "create_user" -> Committed.users
      [] op = "create_post" -> Committed.posts
      [] op = "create_comment" -> Committed.comments

\* The row a create call inserted: the rowid its insert was given and the
\* field values the caller supplied.
InsertedRow(c, rowid) ==
    CASE c.op = "create_user" -> User(rowid, c.args[1])
      [] c.op = "create_post" ->
            Post(rowid, c.args[1], c.args[2], c.args[3], FALSE)
      [] c.op = "create_comment" ->
            Comment(rowid, c.args[1], c.args[2], c.args[3])

\* C1: whatever the interleaving of the callers' store steps, a create
\* operation whose insert went through yields a row, and that row is the
\* one this call inserted (the rowid its own insert was given, with the
\* field values it supplied), which is committed once the call has ended
\* (a created post may have been published by then).
C1_CreateYieldsOwnRow ==
    \A p \in Procs :
        (pc[p] \in {"selected", "done"} /\ call[p].op \in CreateOps /\ hist[p] # 0) =>
            /\ ret[p] = Ok(InsertedRow(call[p], hist[p]))
            /\ pc[p] = "done" =>
                  \E r \in Range(TableOf(call[p].op)) :
                      \/ r = ret[p].val
                      \/ /\ call[p].op = "create_post"
                         /\ [r EXCEPT !.published = FALSE] = ret[p].val

\* Two callers hold at once the rows they created in the same table.
C1_Witness ==
    \E p, q \in Procs :
        /\ p # q
        /\ pc[p] = "done" /\ pc[q] = "done"
        /\ call[p].op \in CreateOps /\ call[q].op = call[p].op
        /\ ret[p].ok /\ ret[q].ok
        /\ ret[p].val.id # ret[q].val.id

\* The post of a parent entry: the parent is (Post, User) in
\* all_posts_with_comments_user and Post in user_posts_with_comments.
PostOf(op, parent) == IF op = "all_posts_with_comments_user" THEN parent[1] ELSE parent

Count(seq, x) == Cardinality({i \in DOMAIN seq : seq[i] = x})

Assembling(p) == pc[p] = "done" /\ call[p].op \in CompositeOps

\* C2: the assembled output has one entry per parent of the parent list; the
\* children of each entry are, as a multiset, the loaded child rows whose
\* post_id is that parent's id; every loaded child row is in exactly one
\* entry, once; a parent without children has the empty list.
C2_AssemblerComplete ==
    \A p \in Procs : Assembling(p) =>
        LET out == ret[p].val
            P == parents[p]
            C == flat[p]
        IN /\ ret[p].ok
           /\ Len(out) = Len(P)
           /\ \A i \in DOMAIN out :
                 LET id == PostOf(call[p].op, P[i]).id
                     mine == SelectSeq(C, LAMBDA c : c[1].post_id = id)
                 IN /\ out[i][1] = P[i]
                    /\ Len(out[i][2]) = Len(mine)
                    /\ \A x \in Range(C) \cup Range(out[i][2]) :
                          Count(out[i][2], x) = Count(mine, x)
           /\ \A j \in DOMAIN C :
                 Cardinality({i \in DOMAIN out : Count(out[i][2], C[j]) > 0}) = 1

\* all_posts_with_comments_user assembled two posts, one with a comment and
\* one without.
C2_Witness ==
    \E p \in Procs :
        /\ Assembling(p)
        /\ call[p].op = "all_posts_with_comments_user"
        /\ Len(ret[p].val) = 2
        /\ \E i, j \in DOMAIN ret[p].val :
              ret[p].val[i][2] = <<>> /\ ret[p].val[j][2] # <<>>

\* C3: the entries of the assembled output are the parents in the order of
\* the parent load, which is post id descending; the children of each entry
\* are the loaded child rows of that parent in the order of the child load.
C3_AssemblerOrder ==
    \A p \in Procs : Assembling(p) =>
        LET out == ret[p].val
            P == parents[p]
        IN /\ DOMAIN out = DOMAIN P
           /\ \A i \in DOMAIN out : out[i][1] = P[i]
           /\ \A i, j \in DOMAIN out :
                 i < j => PostOf(call[p].op, out[i][1]).id > PostOf(call[p].op, out[j][1]).id
           /\ \A i \in DOMAIN out :
                 out[i][2] = SelectSeq(flat[p],
                     LAMBDA c : c[1].post_id = PostOf(call[p].op, P[i]).id)

\* user_posts_with_comments assembled a post with two comments that the
\* child load yielded in an order other than by comment id.
C3_Witness ==
    \E p \in Procs :
        /\ Assembling(p)
        /\ call[p].op = "user_posts_with_comments"
        /\ \E i \in DOMAIN ret[p].val :
              LET kids == ret[p].val[i][2]
              IN Len(kids) = 2 /\ kids[1][1].id > kids[2][1].id

\* The step in which caller p runs the one statement of the read op.
ReadStep(p, op) == pc[p] = "idle" /\ pc'[p] = "done" /\ call'[p].op = op

\* C4: all_posts yields exactly the posts that are published when it reads,
\* never an unpublished one, each with the user its user_id names, by post id
\* descending.
C4_FilterCorrect ==
    [][\A p \in Procs : ReadStep(p, "all_posts") =>
          LET out == ret'[p].val
          IN /\ ret'[p].ok
             /\ {out[i][1] : i \in DOMAIN out} =
                    {r \in Range(Committed.posts) : r.published}
             /\ \A i \in DOMAIN out :
                   /\ out[i][1].published = TRUE
                   /\ out[i][2] \in Range(Committed.users)
                   /\ out[i][2].id = out[i][1].user_id
             /\ \A i, j \in DOMAIN out : i < j => out[i][1].id > out[j][1].id]_vars

\* all_posts yielded two posts while a third post is not published.
C4_Witness ==
    \E p \in Procs :
        /\ pc[p] = "done" /\ call[p].op = "all_posts"
        /\ Len(ret[p].val) = 2
        /\ Len(Committed.posts) = 3
        /\ \E r \in Range(Committed.posts) : ~r.published

\* Caller p is inside a publish_post call after this step.
InPublish(p) == call'[p].op = "publish_post" /\ pc[p] # "done"
Target(p) == call'[p].args[1]
TargetExists(p) == Target(p) \in Ids(Committed.posts)
TargetPublished(p) ==
    \E r \in Range(Committed.posts) : r.id = Target(p) /\ r.published
Answered(p) == pc'[p] \in {"selected", "done"}

\* C5: publish_post of an existing post succeeds and yields that post with
\* published = true, the first time and again; a publish_post of a post that
\* is already published leaves the store as it was.
C5_PublishIdempotent ==
    [][\A p \in Procs :
          /\ (InPublish(p) /\ TargetExists(p) /\ Answered(p)) =>
                /\ ret'[p].ok
                /\ ret'[p].val.id = Target(p)
                /\ ret'[p].val.published = TRUE
          /\ (InPublish(p) /\ TargetPublished(p)) =>
                /\ db' = db
                /\ Committed' = Committed]_vars

\* A publish_post of a post that was already published got its answer.
C5_Witness ==
    \E p \in Procs :
        /\ pc[p] = "selected" /\ call[p].op = "publish_post" /\ writer = p
        /\ \E r \in Range(journal.posts) : r.id = call[p].args[1] /\ r.published
        /\ ret[p].ok

\* C6: publish_post of an id that no post has yields NotFound and leaves the
\* store as it was: no post appears and no published field changes.
C6_PublishNotFound ==
    [][\A p \in Procs : (InPublish(p) /\ ~TargetExists(p)) =>
          /\ db' = db
          /\ Committed' = Committed
          /\ Answered(p) => ret'[p] = Err("NotFound")]_vars

\* A publish_post of an id that no post has ended, with posts in the store.
C6_Witness ==
    \E p \in Procs :
        /\ pc[p] = "done" /\ call[p].op = "publish_post"
        /\ ~ret[p].ok /\ ret[p].val = "NotFound"
        /\ \E r \in Range(Committed.posts) : ~r.published

Matches(key, u) == IF key[1] = "Username" THEN u.username = key[2] ELSE u.id = key[2]

\* C7: find_user yields the one committed user its key matches, and NotFound
\* when there is none, and changes nothing; asked for the id or the username
\* of a user that create_user has just yielded, it yields that same user;
\* and a committed user stays as it is in every later state.
C7_FindUserRoundTrip ==
    [][/\ \A p \in Procs : ReadStep(p, "find_user") =>
             LET M == {u \in Range(Committed.users) : Matches(call'[p].args, u)}
             IN /\ M = {} => ret'[p] = Err("NotFound")
                /\ M # {} => ret'[p].ok /\ M = {ret'[p].val}
                /\ UNCHANGED <<tables, writer, journal>>
       /\ \A p, q \in Procs :
             (/\ ReadStep(p, "find_user")
              /\ pc[q] = "done" /\ call[q].op = "create_user" /\ ret[q].ok
              /\ \/ call'[p].args[1] = "ID" /\ call'[p].args[2] = ret[q].val.id
                 \/ call'[p].args[1] = "Username"
                    /\ call'[p].args[2] = call[q].args[1])
             => ret'[p] = ret[q]
       /\ \A i \in DOMAIN Committed.users :
             i \in DOMAIN Committed'.users /\ Committed'.users[i] = Committed.users[i]
      ]_vars

\* With two users in the store, find_user by username yielded the user that
\* the other caller's create_user has just yielded.
C7_Witness ==
    \E p, q \in Procs :
        /\ pc[p] = "done" /\ call[p].op = "find_user" /\ call[p].args[1] = "Username"
        /\ pc[q] = "done" /\ call[q].op = "create_user"
        /\ ret[p].ok /\ ret[q].ok
        /\ ret[p].val = ret[q].val
        /\ ret[p].val.id = 2

\* From the tables old to the tables new: users and comments are kept as
\* they are, a post is kept but for published, which does not go back to
\* false, and a new post is not published.
Kept(old, new) ==
    /\ \A i \in DOMAIN old.users :
          i \in DOMAIN new.users /\ new.users[i] = old.users[i]
    /\ \A i \in DOMAIN old.comments :
          i \in DOMAIN new.comments /\ new.comments[i] = old.comments[i]
    /\ \A i \in DOMAIN old.posts :
          /\ i \in DOMAIN new.posts
          /\ [new.posts[i] EXCEPT !.published = old.posts[i].published] = old.posts[i]
          /\ old.posts[i].published => new.posts[i].published
    /\ \A i \in DOMAIN new.posts \ DOMAIN old.posts : new.posts[i].published = FALSE

\* The posts of old that differ in new.
Changed(old, new) ==
    {old.posts[i].id : i \in {j \in DOMAIN old.posts : new.posts[j] # old.posts[j]}}

\* C8: a post is created with published = false; a published post stays
\* published; no field of an existing user, post or comment changes, but for
\* published of the one post that a publish_post call names.
C8_PublishedMonotone ==
    [][/\ Kept(db, db')
       /\ Kept(Committed, Committed')
       /\ \A id \in Changed(db, db') \cup Changed(Committed, Committed') :
             \E p \in Procs :
                 /\ call'[p].op = "publish_post"
                 /\ pc'[p] # pc[p]
                 /\ call'[p].args[1] = id]_vars

\* A published and an unpublished post, and a comment created after them.
C8_Witness ==
    /\ writer = 0
    /\ \E r \in Range(posts) : r.published
    /\ \E r \in Range(posts) : ~r.published
    /\ comments # <<>>

\* The child load of a composite read yields only comments of the loaded
\* parents, so grouped_by is never handed a child without a parent.
ChildrenBelongToParents ==
    \A p \in Procs : Assembling(p) =>
        \A k \in DOMAIN flat[p] :
            \E i \in DOMAIN parents[p] :
                PostOf(call[p].op, parents[p][i]).id = flat[p][k][1].post_id

\* C10: between the two loads of a composite read, and after them, the
\* loaded parents are posts of the store, by id descending (published ones
\* in all_posts_with_comments_user, the user's in user_posts_with_comments);
\* the result has one entry per loaded parent, in that order; every comment
\* of an entry is a committed comment of that entry's post, with its
\* commenter; and no comment of that post that was committed at the parent
\* load is missing, so that only comments committed later come on top.
C10_ReadSkewBounded ==
    \A p \in Procs :
        (call[p].op \in CompositeOps /\ pc[p] \in {"loaded", "done"}) =>
            LET op == call[p].op
                P == parents[p]
                out == ret[p].val
            IN /\ \A i, j \in DOMAIN P :
                     i < j => PostOf(op, P[i]).id > PostOf(op, P[j]).id
               /\ \A i \in DOMAIN P :
                     LET post == PostOf(op, P[i])
                     IN /\ post.id \in Ids(Committed.posts)
                        /\ op = "all_posts_with_comments_user" => post.published
                        /\ op = "user_posts_with_comments" =>
                              post.user_id = call[p].args[1]
               /\ pc[p] = "done" =>
                     /\ Len(out) = Len(P)
                     /\ \A i \in DOMAIN out :
                           LET id == PostOf(op, P[i]).id
                               kids == out[i][2]
                           IN /\ out[i][1] = P[i]
                              /\ \A k \in DOMAIN kids :
                                    /\ kids[k][1].post_id = id
                                    /\ kids[k][1] \in Range(Committed.comments)
                                    /\ kids[k][2] \in Range(Committed.users)
                                    /\ kids[k][2].id = kids[k][1].user_id
                              /\ \A n \in 1..hist[p] :
                                    Committed.comments[n].post_id = id =>
                                        \E k \in DOMAIN kids :
                                            kids[k][1] = Committed.comments[n]

\* A composite read assembled a comment that was committed between its
\* parent load and its child load.
C10_Witness ==
    \E p \in Procs :
        /\ Assembling(p)
        /\ \E i \in DOMAIN ret[p].val :
              \E k \in DOMAIN ret[p].val[i][2] : ret[p].val[i][2][k][1].id > hist[p]

====
